---- MODULE Spec2Model ----
(***************************************************************************)
(* A model of smart-routes (src/main.py): a delay model fitted once when   *)
(* the module is imported, a traffic provider call that absorbs request    *)
(* failures, the per-leg travel time estimate, the loop of optimize_route  *)
(* over consecutive stops, and main's try/except around it.                *)
(*                                                                         *)
(* Python floats are modelled as exact rationals <<num, den>> in lowest    *)
(* terms with den > 0.  Python values carry their type in a "type" field.  *)
(***************************************************************************)
EXTENDS Integers, Sequences, FiniteSets, TLC

VARIABLES
    pc,               \* position of the program: see the actions below
    historical_data,  \* the training samples, main.py:13-16
    model,            \* the module-level fitted LinearRegression, main.py:22-23
    locations,        \* the stops handed to optimize_route
    i,                \* optimize_route's loop index (0-based, as in the code)
    optimized_route,  \* optimize_route's list of legs built so far
    traffic_data,     \* optimize_route's local: the provider's last return value
    route,            \* main's local `route`
    exc,              \* the exception that ended the program or the call, "" if none
    stdout,           \* the lines printed so far
    calls,            \* the provider requests sent during the current call, in order
    replies,          \* what the network answered to each of them, in order
    results,          \* the provider's return values during the current call, in order
    inflight,         \* the number of provider calls in progress
    call,             \* 1 during the first invocation of main, 2 during a repeated one
    first             \* what the first invocation left: its route and provider results

vars == <<pc, historical_data, model, locations, i, optimized_route, traffic_data,
          route, exc, stdout, calls, replies, results, inflight, call, first>>

---------------------------------------------------------------------------
(* Bounds of the model *)

\* the longest stop sequence handed to optimize_route
MaxStops == 3

\* the largest training set drawn when the fit is checked on its own
MaxSamples == 3

---------------------------------------------------------------------------
(* Python values *)

None == [type |-> "NoneType"]

Float(q) == [type |-> "float", num |-> q[1], den |-> q[2]]

Str(s) == [type |-> "str", s |-> s]

Dict(n) == [type |-> "dict", len |-> n]

\* The literal returned at main.py:54
UNAVAILABLE == Str("Unable to estimate time due to lack of traffic data.")

\* The stops: main.py:95 names three coordinates
Coordinates == {"SF", "LA", "LV"}

API_KEY == "YOUR_API_KEY"

---------------------------------------------------------------------------
(* Float arithmetic, as exact rationals *)

Abs(n) == IF n < 0 THEN -n ELSE n

RECURSIVE GCD(_, _)
GCD(a, b) == IF b = 0 THEN a ELSE GCD(b, a % b)

Rat(n, d) ==
    LET g == GCD(Abs(n), Abs(d))
        s == IF d < 0 THEN -1 ELSE 1
    IN  <<(s * n) \div g, (s * d) \div g>>

RatAdd(a, b) == Rat(a[1] * b[2] + b[1] * a[2], a[2] * b[2])

RatMul(a, b) == Rat(a[1] * b[1], a[2] * b[2])

RatDiv(a, b) == Rat(a[1] * b[2], a[2] * b[1])

FromInt(n) == <<n, 1>>

---------------------------------------------------------------------------
(* The delay model: main.py:11-23 *)

\* main.py:13-16, as (distance, traffic_delay) samples
HistoricalData ==
    << [distance |-> 5,  traffic_delay |-> 5],
       [distance |-> 10, traffic_delay |-> 10],
       [distance |-> 15, traffic_delay |-> 20],
       [distance |-> 20, traffic_delay |-> 25] >>

RECURSIVE SumX(_)
SumX(s) == IF s = <<>> THEN 0 ELSE Head(s).distance + SumX(Tail(s))

RECURSIVE SumY(_)
SumY(s) == IF s = <<>> THEN 0 ELSE Head(s).traffic_delay + SumY(Tail(s))

RECURSIVE SumXX(_)
SumXX(s) == IF s = <<>> THEN 0 ELSE Head(s).distance * Head(s).distance + SumXX(Tail(s))

RECURSIVE SumXY(_)
SumXY(s) == IF s = <<>> THEN 0 ELSE Head(s).distance * Head(s).traffic_delay + SumXY(Tail(s))

Unfitted == [fitted |-> FALSE, coef |-> FromInt(0), intercept |-> FromInt(0)]

\* A fit without the intercept term (LinearRegression(fit_intercept=False)): the
\* line through the origin.
fit_through_origin(samples) ==
    IF SumXX(samples) = 0
    THEN [raised |-> "ValueError", model |-> Unfitted]
    ELSE [raised |-> "",
          model  |-> [fitted |-> TRUE,
                      coef |-> Rat(SumXY(samples), SumXX(samples)),
                      intercept |-> FromInt(0)]]

\* LinearRegression().fit(X, y) on one feature (main.py:19-23): ordinary least
\* squares.  An empty sample set is refused with ValueError; a set whose centred
\* distances are all zero (one sample, or identical distances) is not refused:
\* the least-norm solution has coefficient 0 and the mean delay as intercept.
fit(samples) ==
    LET n   == Len(samples)
        sxx == n * SumXX(samples) - SumX(samples) * SumX(samples)
        sxy == n * SumXY(samples) - SumX(samples) * SumY(samples)
        a   == IF sxx = 0 THEN FromInt(0) ELSE Rat(sxy, sxx)
        b   == RatDiv(RatAdd(FromInt(SumY(samples)),
                             RatMul(FromInt(-SumX(samples)), a)),
                      FromInt(n))
    IN  IF n = 0
        THEN [raised |-> "ValueError", model |-> Unfitted]
        ELSE [raised |-> "", model |-> [fitted |-> TRUE, coef |-> a, intercept |-> b]]

\* model.predict(np.array([[distance]]))[0], main.py:57
predict(m, distance) == RatAdd(RatMul(m.coef, FromInt(distance)), m.intercept)

---------------------------------------------------------------------------
(* The traffic provider: get_real_time_traffic_data, main.py:25-42 *)

\* What the network can answer to one request.  "no_reply" is a transport
\* failure; "fault" stands for an error of a class outside the requests
\* exception hierarchy raised while the request is made or read.
Replies ==
    { [kind |-> "no_reply", status |-> 0,   body |-> ""],
      [kind |-> "http",     status |-> 503, body |-> "<html>"],
      [kind |-> "http",     status |-> 200, body |-> "<html>"],
      [kind |-> "http",     status |-> 200, body |-> "null"],
      [kind |-> "http",     status |-> 200, body |-> "{}"],
      [kind |-> "http",     status |-> 200, body |-> "{\"delay\": 7}"],
      [kind |-> "fault",    status |-> 0,   body |-> ""] }

\* The classes derived from requests.exceptions.RequestException that the calls
\* at main.py:37-39 raise: requests.get (ConnectionError), raise_for_status
\* (HTTPError), response.json (requests' JSONDecodeError).
RequestExceptions == {"ConnectionError", "HTTPError", "JSONDecodeError"}

Returned(v) == [raised |-> "", value |-> v]

Raised(e) == [raised |-> e, value |-> None]

\* response.json(), main.py:39
ResponseJson(body) ==
    CASE body = "null" -> Returned(None)
      [] body = "{}"   -> Returned(Dict(0))
      [] body = "{\"delay\": 7}" -> Returned(Dict(1))
      [] OTHER -> Raised("JSONDecodeError")

\* The try body, main.py:35-39
TryRequest(reply) ==
    CASE reply.kind = "no_reply" -> Raised("ConnectionError")
      [] reply.kind = "fault"    -> Raised("RuntimeError")
      [] reply.status >= 400     -> Raised("HTTPError")
      [] OTHER -> ResponseJson(reply.body)

\* An except clause that names only the transport failures.
ExceptClauseCatches_Narrow(e) == e = "ConnectionError"

\* except requests.exceptions.RequestException, main.py:40
ExceptClauseCatches(e) == e \in RequestExceptions

FetchErrorLine(e) == [line |-> "Error fetching real-time traffic data:", detail |-> e]

\* get_real_time_traffic_data(api_key, start, end) given the network's reply:
\* what it returns or raises, and what it prints (main.py:34-42).
get_real_time_traffic_data(reply) ==
    LET r == TryRequest(reply)
    IN  IF r.raised # "" /\ ExceptClauseCatches(r.raised)
        THEN [raised |-> "", value |-> None, printed |-> <<FetchErrorLine(r.raised)>>]
        ELSE [raised |-> r.raised, value |-> r.value, printed |-> <<>>]

---------------------------------------------------------------------------
(* The estimate: estimate_travel_time, main.py:44-63 *)

\* main.py:78, the placeholder distance
PLACEHOLDER_DISTANCE == 10

\* main.py:61, the assumed average speed in km/h
ASSUMED_SPEED == 50

\* main.py:61, minutes per hour
MINUTES_PER_HOUR == 60

\* main.py:60
real_time_factor == 1

\* A test for absence by truthiness (`if not real_traffic_data`).
IsAbsent_Falsy(real_traffic_data) ==
    \/ real_traffic_data = None
    \/ (real_traffic_data.type = "dict" /\ real_traffic_data.len = 0)

\* `real_traffic_data is None`, main.py:53
IsAbsent(real_traffic_data) == real_traffic_data = None

\* An estimate that doubles the delay (real_time_factor = 2).
EstimatedMinutes_Doubled(m, distance) ==
    RatAdd(RatMul(RatDiv(FromInt(distance), FromInt(ASSUMED_SPEED)),
                  FromInt(MINUTES_PER_HOUR)),
           RatMul(predict(m, distance), FromInt(2)))

\* main.py:57-61
EstimatedMinutes(m, distance) ==
    RatAdd(RatMul(RatDiv(FromInt(distance), FromInt(ASSUMED_SPEED)),
                  FromInt(MINUTES_PER_HOUR)),
           RatMul(predict(m, distance), FromInt(real_time_factor)))

\* An estimate that never looks at the traffic data.
estimate_travel_time_Unchecked(m, distance, real_traffic_data) ==
    Float(EstimatedMinutes(m, distance))

\* estimate_travel_time(distance, real_traffic_data), main.py:44-63, with the
\* module-level model it reads
estimate_travel_time(m, distance, real_traffic_data) ==
    IF IsAbsent(real_traffic_data)
    THEN UNAVAILABLE
    ELSE Float(EstimatedMinutes(m, distance))

---------------------------------------------------------------------------
(* The state after the interpreter has read the file, before line 19 runs *)

Unbound == [bound |-> FALSE, legs |-> <<>>]

Bound(legs) == [bound |-> TRUE, legs |-> legs]

NoFirst == [done |-> FALSE, route |-> Unbound, results |-> <<>>]

\* Every stop sequence of at most MaxStops coordinates, the empty one included
StopSeqs == UNION {[1..n -> Coordinates] : n \in 0..MaxStops}

InitWith(data, stops) ==
    /\ pc = "import"
    /\ historical_data = data
    /\ model = Unfitted
    /\ locations = stops
    /\ i = 0
    /\ optimized_route = <<>>
    /\ traffic_data = None
    /\ route = Unbound
    /\ exc = ""
    /\ stdout = <<>>
    /\ calls = <<>>
    /\ replies = <<>>
    /\ results = <<>>
    /\ inflight = 0
    /\ call = 1
    /\ first = NoFirst

Init == \E stops \in StopSeqs : InitWith(HistoricalData, stops)

---------------------------------------------------------------------------
(* Module level: main.py:19-23 *)

\* X, y and model.fit(X, y).  An exception here is raised while the module is
\* being executed, outside any try: the process ends with a traceback.
ModuleImport ==
    /\ pc = "import"
    /\ LET r == fit(historical_data)
       IN  IF r.raised = ""
           THEN /\ model' = r.model
                /\ pc' = "main"
                /\ exc' = exc
           ELSE /\ model' = model
                /\ pc' = "crashed"
                /\ exc' = r.raised
    /\ UNCHANGED <<historical_data, locations, i, optimized_route, traffic_data, route,
                   stdout, calls, replies, results, inflight, call, first>>

---------------------------------------------------------------------------
(* optimize_route, main.py:65-91 *)

\* A list that outlives the call (a mutable default argument).
NewRoute_Shared(previous) == previous

\* optimized_route = [], main.py:73
NewRoute(previous) == <<>>

\* A loop that stops one pair early.
LoopContinues_Short(index, stops) == index < Len(stops) - 2

\* for i in range(len(locations) - 1), main.py:74
LoopContinues(index, stops) == index < Len(stops) - 1

\* The dict appended at main.py:84-89
Leg(start, end, estimated_time) ==
    [from |-> start, to |-> end, estimated_time |-> estimated_time]

\* A loop that asks the provider again after an absent result.
AfterFetch_Retry(value) == IF value = None THEN "for" ELSE "estimate"

\* After the provider returned, main.py:80-82: the estimate, whatever was returned
AfterFetch(value) == "estimate"

\* main() enters its try block and calls optimize_route(locations, api_key):
\* main.py:97-98, 73
MainCallsOptimizeRoute ==
    /\ pc = "main"
    /\ optimized_route' = NewRoute(optimized_route)
    /\ i' = 0
    /\ calls' = <<>>
    /\ replies' = <<>>
    /\ results' = <<>>
    /\ pc' = "for"
    /\ UNCHANGED <<historical_data, model, locations, traffic_data, route, exc, stdout,
                   inflight, call, first>>

\* The loop header; with a pair left, main.py:75-80 up to the request being sent
\* (indices are 0-based in the code, 1-based here)
ForNextPair ==
    /\ pc = "for"
    /\ LoopContinues(i, locations)
    /\ LET start == locations[i + 1]
           end   == locations[i + 2]
       IN  calls' = Append(calls, [api_key |-> API_KEY, start |-> start, end |-> end])
    /\ inflight' = inflight + 1
    /\ pc' = "fetch"
    /\ UNCHANGED <<historical_data, model, locations, i, optimized_route, traffic_data,
                   route, exc, stdout, replies, results, call, first>>

\* The loop is exhausted: return optimized_route (main.py:91), bound to main's
\* `route` (main.py:98)
ReturnRoute ==
    /\ pc = "for"
    /\ ~LoopContinues(i, locations)
    /\ route' = Bound(optimized_route)
    /\ pc' = "print"
    /\ UNCHANGED <<historical_data, model, locations, i, optimized_route, traffic_data,
                   exc, stdout, calls, replies, results, inflight, call, first>>

\* get_real_time_traffic_data ends (main.py:80): it returns, or an exception it
\* does not catch leaves optimize_route and reaches main's except clause
FetchTraffic ==
    /\ pc = "fetch"
    /\ \E reply \in Replies :
         LET r == get_real_time_traffic_data(reply)
         IN  /\ replies' = Append(replies, reply)
             /\ stdout' = stdout \o r.printed
             /\ IF r.raised = ""
                THEN /\ traffic_data' = r.value
                     /\ results' = Append(results, r.value)
                     /\ pc' = AfterFetch(r.value)
                     /\ exc' = exc
                ELSE /\ traffic_data' = traffic_data
                     /\ results' = results
                     /\ pc' = "except"
                     /\ exc' = r.raised
    /\ inflight' = inflight - 1
    /\ UNCHANGED <<historical_data, model, locations, i, optimized_route, route, calls,
                   call, first>>

\* estimate_travel_time and the append, main.py:82-89, and the loop's increment
EstimateAndAppend ==
    /\ pc = "estimate"
    /\ LET start == locations[i + 1]
           end   == locations[i + 2]
           estimated_time == estimate_travel_time(model, PLACEHOLDER_DISTANCE, traffic_data)
       IN  optimized_route' = Append(optimized_route, Leg(start, end, estimated_time))
    /\ i' = i + 1
    /\ pc' = "for"
    /\ UNCHANGED <<historical_data, model, locations, traffic_data, route, exc, stdout,
                   calls, replies, results, inflight, call, first>>

---------------------------------------------------------------------------
(* main, main.py:93-101 *)

\* json.dumps of one leg: the tuples become arrays, a float a number, a str a string
JsonLeg(leg) ==
    [from |-> <<"array", leg.from>>,
     to   |-> <<"array", leg.to>>,
     estimated_time |->
        IF leg.estimated_time.type = "float"
        THEN <<"number", leg.estimated_time.num, leg.estimated_time.den>>
        ELSE <<"string", leg.estimated_time.s>> ]

\* json.dumps(route, indent=2), main.py:99
JsonDumps(legs) == [line |-> "route", detail |-> [k \in 1..Len(legs) |-> JsonLeg(legs[k])]]

MainErrorLine(e) == [line |-> "An error occurred during route optimization:", detail |-> e]

\* Every exception class of the model derives from Exception
Exceptions == RequestExceptions \cup {"RuntimeError", "ValueError"}

\* except Exception, main.py:100
MainCatches(e) == e \in Exceptions

\* A print of whatever legs were assembled before the failure.
PrintedOnError_Partial(e, legs) == <<JsonDumps(legs), MainErrorLine(e)>>

\* print("An error occurred during route optimization:", e), main.py:101
PrintedOnError(e, legs) == <<MainErrorLine(e)>>

\* print(json.dumps(route, indent=2)), main.py:99; main returns
MainPrintsRoute ==
    /\ pc = "print"
    /\ stdout' = Append(stdout, JsonDumps(route.legs))
    /\ pc' = "done"
    /\ UNCHANGED <<historical_data, model, locations, i, optimized_route, traffic_data,
                   route, exc, calls, replies, results, inflight, call, first>>

\* main.py:100-101: the exception raised under optimize_route is caught and
\* reported; main returns
MainExcept ==
    /\ pc = "except"
    /\ IF MainCatches(exc)
       THEN /\ stdout' = stdout \o PrintedOnError(exc, optimized_route)
            /\ pc' = "done"
       ELSE /\ stdout' = stdout
            /\ pc' = "crashed"
    /\ UNCHANGED <<historical_data, model, locations, i, optimized_route, traffic_data,
                   route, exc, calls, replies, results, inflight, call, first>>

Next ==
    \/ ModuleImport
    \/ MainCallsOptimizeRoute
    \/ ForNextPair
    \/ ReturnRoute
    \/ FetchTraffic
    \/ EstimateAndAppend
    \/ MainPrintsRoute
    \/ MainExcept

Spec == Init /\ [][Next]_vars

---------------------------------------------------------------------------
(* optimize_route called a second time with the same stops *)

\* main() is invoked again after it returned: a new frame (no `route`, no pending
\* exception), the same module-level model, the same stops.  What the first
\* invocation returned and what the provider returned to it are kept in `first`.
CallAgain ==
    /\ pc = "done"
    /\ call = 1
    /\ first' = [done |-> TRUE, route |-> route, results |-> results]
    /\ call' = 2
    /\ route' = Unbound
    /\ exc' = ""
    /\ pc' = "main"
    /\ UNCHANGED <<historical_data, model, locations, i, optimized_route, traffic_data,
                   stdout, calls, replies, results, inflight>>

NextTwice == Next \/ CallAgain

\* The stops of the repeated call: the first n stops of a tour that visits the
\* coordinates of main.py:95 in turn
TourStop(k) == CASE k % 3 = 1 -> "SF" [] k % 3 = 2 -> "LA" [] OTHER -> "LV"

Tour(n) == [k \in 1..n |-> TourStop(k)]

InitTwice == \E n \in 0..MaxStops : InitWith(HistoricalData, Tour(n))

SpecTwice == InitTwice /\ [][NextTwice]_vars

---------------------------------------------------------------------------
(* The fit on its own: the module imported with other training data *)

Distances == {5, 10}

Delays == {5, 10}

Samples == [distance : Distances, traffic_delay : Delays]

TrainingSets == UNION {[1..n -> Samples] : n \in 0..MaxSamples}

\* main.py:95
MainLocations == <<"SF", "LA", "LV">>

InitFit == \E data \in TrainingSets : InitWith(data, MainLocations)

SpecFit == InitFit /\ [][Next]_vars

---------------------------------------------------------------------------
(* Properties *)

Max(a, b) == IF a >= b THEN a ELSE b

N == Len(locations)

\* Whether a return value of the provider is a snapshot (anything but None)
Present(v) == v.type # "NoneType"

Presence(rs) == [k \in 1..Len(rs) |-> Present(rs[k])]

IsNumber(v) == v.type = "float"

\* A network answer that is a transport failure, an HTTP error status or a body
\* that is not JSON
ProviderFailure(reply) ==
    \/ reply.kind = "no_reply"
    \/ reply.kind = "http" /\ reply.status >= 400
    \/ reply.kind = "http" /\ reply.status < 400
                           /\ reply.body \notin {"null", "{}", "{\"delay\": 7}"}

InOrder(legs) ==
    \A k \in 1..Len(legs) :
        /\ k + 1 <= N
        /\ legs[k].from = locations[k]
        /\ legs[k].to = locations[k + 1]

\* C1: whatever the provider answered, the route optimize_route returns has
\* exactly max(N-1, 0) legs, the k-th from stop k to stop k+1; it is empty for
\* N <= 1.  The legs built so far are always a prefix of that route.
C1_RouteShape ==
    /\ InOrder(optimized_route)
    /\ route.bound =>
          /\ Len(route.legs) = Max(N - 1, 0)
          /\ InOrder(route.legs)
          /\ (N <= 1 => route.legs = <<>>)

\* C1's case: a route returned for three distinct stops, one pair with a
\* snapshot and one without
C1_Witness ==
    /\ route.bound
    /\ locations = <<"SF", "LA", "LV">>
    /\ Len(route.legs) = 2
    /\ Presence(results) = <<FALSE, TRUE>>

\* C2: a leg whose provider call returned None carries the unavailable marker
\* and no number; a leg whose call returned a snapshot carries a number and not
\* the marker.
C2_MarkerIffAbsent ==
    /\ Len(optimized_route) <= Len(results)
    /\ \A k \in 1..Len(optimized_route) :
          LET t == optimized_route[k].estimated_time
          IN  /\ ~Present(results[k]) => (t = UNAVAILABLE /\ ~IsNumber(t))
              /\ Present(results[k]) => (IsNumber(t) /\ t # UNAVAILABLE)
    /\ route.bound => route.legs = optimized_route

\* C2's case: three stops, the provider absent for both pairs (a failed request
\* and a null body), and the route returned
C2_Witness ==
    /\ route.bound
    /\ Len(locations) = 3
    /\ results = <<None, None>>
    /\ \A k \in 1..2 : route.legs[k].estimated_time = UNAVAILABLE

\* C3: a leg whose provider call returned a snapshot has the estimate
\* (10/50)*60 + predict(10)*1 exactly, predict being that of the model fitted
\* at import: with predict(10) = p/q and the estimate n/d, n*50*q = d*(10*60*q + 50*p).
C3_EstimateFormula ==
    \A k \in 1..Len(optimized_route) :
        Present(results[k]) =>
            LET t == optimized_route[k].estimated_time
                a == model.coef
                b == model.intercept
                p == a[1] * 10 * b[2] + b[1] * a[2]
                q == a[2] * b[2]
            IN  /\ model = fit(HistoricalData).model
                /\ IsNumber(t)
                /\ t.den > 0
                /\ t.num * 50 * q = t.den * (10 * 60 * q + 50 * p * 1)

\* C3's case: a returned route with a numeric leg
C3_Witness ==
    /\ route.bound
    /\ Len(route.legs) = 2
    /\ Present(results[2])
    /\ IsNumber(route.legs[2].estimated_time)

\* C4: a transport failure, an HTTP error status or an unparsable body makes the
\* provider call return None; no such failure reaches the loop as an exception:
\* the loop goes on, and the route returned has a leg for the failed pair.
C4_ProviderFailureAbsorbed ==
    /\ exc \notin {"ConnectionError", "HTTPError", "JSONDecodeError"}
    /\ \A k \in 1..Len(replies) :
          ProviderFailure(replies[k]) =>
              /\ k <= Len(results)
              /\ results[k] = None
              /\ (Len(optimized_route) >= k \/ (pc = "estimate" /\ k = Len(replies)))
    /\ (\A k \in 1..Len(replies) : ProviderFailure(replies[k])) =>
          pc \notin {"except", "crashed"}
    /\ route.bound => Len(route.legs) = Len(replies)

\* C4's case: the first request gets an HTTP error status, the second a body
\* that is not JSON, and both legs are in the returned route
C4_Witness ==
    /\ route.bound
    /\ Len(replies) = 2
    /\ replies[1].status = 503
    /\ replies[2].status = 200 /\ replies[2].body = "<html>"
    /\ Len(route.legs) = 2
    /\ \A k \in 1..2 : route.legs[k].estimated_time = UNAVAILABLE

\* A training set on which a line cannot be fitted: fewer than two samples, or
\* all distances identical
Degenerate(samples) ==
    \/ Len(samples) < 2
    \/ \A j, k \in 1..Len(samples) : samples[j].distance = samples[k].distance

\* C5: on a degenerate training set the fit fails (with InsufficientDataError;
\* any exception raised by the fit is taken for it here) before anything is
\* estimated: the program gets no further than the import, and no model exists.
C5_DegenerateFitRefused ==
    (Degenerate(historical_data) /\ pc # "import") =>
        /\ pc = "crashed"
        /\ exc # ""
        /\ ~model.fitted
        /\ optimized_route = <<>>

\* |a - b| <= 1/20, for rationals with positive denominators: equal to one decimal
ApproxEq(a, b) == 20 * Abs(a[1] * b[2] - b[1] * a[2]) <= a[2] * b[2]

\* The normal equations of least squares for the line a*x + b, a = a[1]/a[2] and
\* b = b[1]/b[2]: the residuals sum to zero and are orthogonal to the distances
NormalEquations(samples, a, b) ==
    /\ a[2] * b[2] * SumY(samples) - a[1] * b[2] * SumX(samples)
          - b[1] * a[2] * Len(samples) = 0
    /\ a[2] * b[2] * SumXY(samples) - a[1] * b[2] * SumXX(samples)
          - b[1] * a[2] * SumX(samples) = 0

\* C6 as stated: the model fitted on distance = [5,10,15,20], delay = [5,10,20,25]
\* has slope about 1.3, intercept about -2.5 and predicts about 10.5 for 10.
C6_AsStated ==
    pc \notin {"import", "crashed"} =>
        /\ ApproxEq(model.coef, <<13, 10>>)
        /\ ApproxEq(model.intercept, <<-5, 2>>)
        /\ ApproxEq(predict(model, 10), <<21, 2>>)

\* C6, amended: the model fitted on those samples is the least-squares line
\* (it satisfies the normal equations), with slope 1.4, intercept -2.5 and
\* predict(10) = 11.5; and the import does fit it.
C6_LeastSquaresFit ==
    /\ pc # "crashed"
    /\ pc # "import" =>
          /\ historical_data = HistoricalData
          /\ model.fitted
          /\ NormalEquations(historical_data, model.coef, model.intercept)
          /\ model.coef = <<7, 5>>
          /\ model.intercept = <<-5, 2>>
          /\ predict(model, 10) = <<23, 2>>

\* C6's case: the module has been imported, the model is fitted, and a leg has
\* been estimated with it
C6_Witness ==
    /\ model.fitted
    /\ pc = "done"
    /\ Len(optimized_route) >= 1
    /\ optimized_route[1].estimated_time = Float(<<47, 2>>)

\* C7: during one call the provider is asked once per consecutive pair, in input
\* order and never again after an absent result; the request for a pair is sent
\* only when the legs of all earlier pairs are in the route; at most one request
\* is in progress; for N <= 1 none is sent.
C7_OneCallPerPairInOrder ==
    /\ inflight \in {0, 1}
    /\ inflight = 1 <=> pc = "fetch"
    /\ Len(calls) <= Max(N - 1, 0)
    /\ \A k \in 1..Len(calls) :
          /\ calls[k].start = locations[k]
          /\ calls[k].end = locations[k + 1]
    /\ pc = "fetch" => Len(optimized_route) = Len(calls) - 1
    /\ pc \in {"for", "print"} => Len(optimized_route) = Len(calls)
    /\ Len(replies) = Len(calls) - inflight
    /\ route.bound => Len(calls) = Max(N - 1, 0)
    /\ N <= 1 => calls = <<>>

\* C7's case: a returned route over three stops whose first request came back
\* absent: two requests in all, the second for the second pair
C7_Witness ==
    /\ route.bound
    /\ Len(locations) = 3
    /\ results[1] = None
    /\ Len(calls) = 2
    /\ calls[2] = [api_key |-> API_KEY, start |-> locations[2], end |-> locations[3]]

RouteLines == {k \in 1..Len(stdout) : stdout[k].line = "route"}

\* C8: a failure under optimize_route that the provider call does not absorb
\* ends the route computation; main reports it and returns normally, printing
\* an error line and no route, not even the legs assembled before the failure.
C8_UnexpectedFailureReported ==
    /\ pc # "crashed"
    /\ exc # "" =>
          /\ pc \in {"except", "done"}
          /\ ~route.bound
          /\ RouteLines = {}
          /\ Len(optimized_route) = Len(calls) - 1
          /\ (pc = "done" => (stdout # <<>> /\ stdout[Len(stdout)] = MainErrorLine(exc)))

\* C8's case: the second request fails unexpectedly after the first leg was
\* assembled, and main has returned
C8_Witness ==
    /\ pc = "done"
    /\ exc = "RuntimeError"
    /\ Len(optimized_route) = 1
    /\ Len(calls) = 2

\* C9: called twice with the same stops and a provider that returns the same
\* snapshot for each pair, optimize_route returns the same route; the model is
\* the one fitted at import in both calls.
C9_Idempotent ==
    (call = 2 /\ first.route.bound /\ route.bound /\ results = first.results) =>
        /\ route = first.route
        /\ model = fit(HistoricalData).model

\* C9's case: two returned routes over three stops with the same provider
\* results, one absent and one present
C9_Witness ==
    /\ call = 2
    /\ first.route.bound
    /\ route.bound
    /\ results = first.results
    /\ results = <<None, Dict(1)>>

\* C10: two calls over the same stops whose provider results agree pair by pair
\* on being a snapshot or None return the same route, whatever the snapshots are.
C10_OnlyPresenceMatters ==
    (call = 2 /\ first.route.bound /\ route.bound
        /\ Presence(results) = Presence(first.results)) =>
        route.legs = first.route.legs

\* C10's case: the snapshots differ between the two calls (an empty dict against
\* a non-empty one) and one pair is absent in both
C10_Witness ==
    /\ call = 2
    /\ first.route.bound
    /\ route.bound
    /\ first.results = <<Dict(0), None>>
    /\ results = <<Dict(1), None>>

====
